---------------------------- MODULE Spec2Model ----------------------------
(***************************************************************************)
(* Model of the diagnostic loop of DiagnoMedAI: the session manager        *)
(* (backend/services/diagnostic_loop.py), the workflow graph               *)
(* (backend/agents/orchestrator.py), the test selector                     *)
(* (backend/agents/dr_test_chooser.py), the stewardship gate               *)
(* (backend/agents/dr_stewardship.py) and the hypothesis generator         *)
(* (backend/agents/dr_hypothesis.py).                                      *)
(*                                                                         *)
(* Numbers.  Python floats are modelled in fixed point: probabilities,     *)
(* sensitivities, specificities and confidences are per-mille              *)
(* (0.85 is 850), entropies and information gains are milli-bits           *)
(* (0.05 bits is 50), costs and budgets are whole dollars.  A division is  *)
(* an integer division; an inequality between two quotients is decided by  *)
(* cross-multiplication.                                                   *)
(*                                                                         *)
(* Optional values.  Python's None is the empty sequence << >> and a       *)
(* present value x is the one-element sequence << x >>.                    *)
(***************************************************************************)
EXTENDS Integers, Sequences, FiniteSets, TLC

(***************************************************************************)
(* Settings (backend/config.py, DiagnosticSettings).  max_iterations and   *)
(* default_budget_usd are read from the environment; the model runs a      *)
(* configuration with a small iteration limit and the budget of the        *)
(* specification's end-to-end scenario.                                    *)
(***************************************************************************)
confidence_threshold == 850

max_iterations == 4

default_budget_usd == 500

(***************************************************************************)
(* Thresholds of the stewardship gate (class attributes of DrStewardship). *)
(***************************************************************************)
MIN_INFO_GAIN == 50

MAX_COST_PER_BIT == 500

HIGH_CONFIDENCE_THRESHOLD == 750

\* The literals of rule 4: info_gain < 0.2, cost_per_bit > 200.
HIGH_CONF_MIN_GAIN == 200

HIGH_CONF_MAX_COST_PER_BIT == 200

(***************************************************************************)
(* Bounds of the model.                                                    *)
(***************************************************************************)
\* run_iteration is not started on a session that already made this many
\* HYPOTHESIS passes (the code has no such limit once a session is complete).
MaxPasses == 5

\* submit_test_result is not called on a session whose completed_tests
\* already has this many entries (the code appends without limit).
MaxCompleted == 2

(***************************************************************************)
(* Sequence helpers.                                                       *)
(***************************************************************************)
Range(s) == {s[i] : i \in 1..Len(s)}

Max2(a, b) == IF a >= b THEN a ELSE b

Min2(a, b) == IF a <= b THEN a ELSE b

RECURSIVE SumSeq(_)
SumSeq(s) == IF s = << >> THEN 0 ELSE Head(s) + SumSeq(Tail(s))

\* list.remove(x): drops the first occurrence of x.
RECURSIVE RemoveFirst(_, _)
RemoveFirst(s, x) ==
    IF s = << >> THEN << >>
    ELSE IF Head(s) = x THEN Tail(s)
    ELSE << Head(s) >> \o RemoveFirst(Tail(s), x)

(***************************************************************************)
(* Knowledge Provider data (CSV files outside the source tree): the test   *)
(* catalog in list order.  T1 is the $25 test of the end-to-end scenario.  *)
(***************************************************************************)
TestCatalog ==
    << [test_id |-> "T1", cost_usd |-> 25,  sensitivity |-> 900,
        specificity |-> 950,  diseases_detected |-> {"D1"}],
       [test_id |-> "T2", cost_usd |-> 475, sensitivity |-> 1000,
        specificity |-> 1000, diseases_detected |-> {"D2"}] >>

TestIds == {TestCatalog[i].test_id : i \in 1..Len(TestCatalog)}

(***************************************************************************)
(* math.log2 on (0, 1], in milli-bits, for p per-mille.  p is doubled k    *)
(* times into [1, 2), and then the fraction of the logarithm is read off   *)
(* bit by bit by repeated squaring of the mantissa (scaled by 2^14).       *)
(***************************************************************************)
RECURSIVE Doublings(_)
Doublings(p) == IF p >= 1000 THEN 0 ELSE 1 + Doublings(2 * p)

RECURSIVE Pow2(_)
Pow2(n) == IF n = 0 THEN 1 ELSE 2 * Pow2(n - 1)

\* A function, so that each level works on the value of the mantissa.
LogBits[y \in Nat, n \in Nat] ==
    IF n = 0 THEN 0
    ELSE LET sq == (y * y) \div 16384
         IN  IF sq >= 32768
             THEN Pow2(n - 1) + LogBits[sq \div 2, n - 1]
             ELSE LogBits[sq, n - 1]

log2[p \in Nat] ==
    LET k == Doublings(p)
        y == (p * Pow2(k) * 16384) \div 1000
    IN  (LogBits[y, 10] * 1000) \div 1024 - 1000 * k

(***************************************************************************)
(* DrTestChooser.  A hypothesis is [disease_id, probability].              *)
(***************************************************************************)
\* List[Hypothesis]: a hypothesis is its disease and its probability.
Hypothesis == [disease_id : STRING, probability : Nat]

HypothesisList == Seq(Hypothesis)

\* Mutant of entropy_term: the logarithm is not weighted by p.
entropy_term_unweighted(p) == IF p > 0 THEN 0 - log2[p] ELSE 0

\* What one hypothesis of probability p adds to the entropy: -p * log2(p)
\* when p > 0, nothing otherwise.
entropy_term(p) == IF p > 0 THEN (p * (0 - log2[p])) \div 1000 ELSE 0

\* A function, so that the list is a value at each level of the sum.
compute_entropy[hypotheses \in HypothesisList] ==
    IF hypotheses = << >> THEN 0
    ELSE entropy_term(Head(hypotheses).probability)
             + compute_entropy[Tail(hypotheses)]

\* Mutant of estimate_posterior: for a disease the test does not detect the
\* two likelihoods are exchanged.
estimate_posterior_exchanged(hypothesis, test, result_positive) ==
    LET prior == hypothesis.probability
        likelihood ==
            IF hypothesis.disease_id \in test.diseases_detected
            THEN IF result_positive THEN test.sensitivity
                 ELSE 1000 - test.sensitivity
            ELSE IF result_positive THEN test.specificity
                 ELSE 1000 - test.specificity
    IN  likelihood * prior

\* likelihood * prior, in parts per million.
estimate_posterior(hypothesis, test, result_positive) ==
    LET prior == hypothesis.probability
        likelihood ==
            IF hypothesis.disease_id \in test.diseases_detected
            THEN IF result_positive THEN test.sensitivity
                 ELSE 1000 - test.sensitivity
            ELSE IF result_positive THEN 1000 - test.specificity
                 ELSE test.specificity
    IN  likelihood * prior

\* The posteriors of one branch, normalized to sum to 1 unless they sum to 0.
Normalized(hypotheses, test, result_positive) ==
    LET post == [i \in 1..Len(hypotheses) |->
                    estimate_posterior(hypotheses[i], test, result_positive)]
        total == SumSeq(post)
    IN  [i \in 1..Len(hypotheses) |->
            [disease_id |-> hypotheses[i].disease_id,
             probability |-> IF total > 0 THEN (post[i] * 1000) \div total
                             ELSE post[i]]]

\* Mutant of compute_expected_entropy_reduction: no early return when the
\* current entropy is 0.
compute_expected_entropy_reduction_no_shortcut(test, hypotheses) ==
    LET current_entropy == compute_entropy[hypotheses]
        p_positive ==
            SumSeq([i \in 1..Len(hypotheses) |->
                IF hypotheses[i].disease_id \in test.diseases_detected
                THEN hypotheses[i].probability * test.sensitivity
                ELSE hypotheses[i].probability * (1000 - test.specificity)])
            \div 1000
        p_negative == 1000 - p_positive
        h_given_positive == compute_entropy[Normalized(hypotheses, test, TRUE)]
        h_given_negative == compute_entropy[Normalized(hypotheses, test, FALSE)]
        expected_entropy ==
            (p_positive * h_given_positive + p_negative * h_given_negative)
            \div 1000
    IN  current_entropy - expected_entropy

compute_expected_entropy_reduction(test, hypotheses) ==
    LET current_entropy == compute_entropy[hypotheses]
        p_positive ==
            SumSeq([i \in 1..Len(hypotheses) |->
                IF hypotheses[i].disease_id \in test.diseases_detected
                THEN hypotheses[i].probability * test.sensitivity
                ELSE hypotheses[i].probability * (1000 - test.specificity)])
            \div 1000
        p_negative == 1000 - p_positive
        h_given_positive == compute_entropy[Normalized(hypotheses, test, TRUE)]
        h_given_negative == compute_entropy[Normalized(hypotheses, test, FALSE)]
        expected_entropy ==
            (p_positive * h_given_positive + p_negative * h_given_negative)
            \div 1000
    IN  IF current_entropy = 0 THEN 0
        ELSE current_entropy - expected_entropy

\* The catalog tests that pass the filter, in catalog order.
AvailableTests(catalog, state, cost_limit) ==
    SelectSeq(catalog, LAMBDA t :
        /\ t.test_id \notin Range(state.completed_tests)
        /\ t.cost_usd <= cost_limit)

\* value(a) > value(b), value = info_gain / max(cost_usd, 1.0).
ValueGreater(a, b, hypotheses) ==
    compute_expected_entropy_reduction(a, hypotheses) * Max2(b.cost_usd, 1)
        > compute_expected_entropy_reduction(b, hypotheses) * Max2(a.cost_usd, 1)

\* Mutant of BestTest: among tests of equal value the last one wins.
RECURSIVE BestTest_last_wins(_, _)
BestTest_last_wins(tests, hypotheses) ==
    IF Len(tests) = 1 THEN Head(tests)
    ELSE LET rest == BestTest_last_wins(Tail(tests), hypotheses)
         IN  IF ValueGreater(Head(tests), rest, hypotheses) THEN Head(tests)
             ELSE rest

\* scored_tests.sort(key=value, reverse=True)[0]: the sort is stable, so the
\* first test of the list that no other test beats.
RECURSIVE BestTest(_, _)
BestTest(tests, hypotheses) ==
    IF Len(tests) = 1 THEN Head(tests)
    ELSE LET rest == BestTest(Tail(tests), hypotheses)
         IN  IF ValueGreater(rest, Head(tests), hypotheses) THEN rest
             ELSE Head(tests)

\* max_cost is << >> (None) or << c >>; "max_cost or budget_remaining".
select_next_test(catalog, state, max_cost) ==
    LET cost_limit == IF max_cost = << >> \/ max_cost = << 0 >>
                      THEN state.budget_remaining
                      ELSE max_cost[1]
        available_tests == AvailableTests(catalog, state, cost_limit)
    IN  IF state.hypotheses = << >> THEN << >>
        ELSE IF available_tests = << >> THEN << >>
        ELSE LET best_test == BestTest(available_tests, state.hypotheses)
             IN  << [test |-> best_test,
                     expected_information_gain |->
                         compute_expected_entropy_reduction(
                             best_test, state.hypotheses)] >>

(***************************************************************************)
(* DrStewardship.                                                          *)
(***************************************************************************)
\* Mutant of _tests_redundant: no two tests are redundant.
_tests_redundant_never(test_id_1, test_id_2) == FALSE

_tests_redundant(test_id_1, test_id_2) == test_id_1 = test_id_2

\* Mutant of evaluate_test: the minimum-gain rule is looked at before the
\* budget rule.
evaluate_test_gain_first(test_request, state) ==
    LET test == test_request.test
        info_gain == test_request.expected_information_gain
        CostPerBitOver(limit) ==
            test.cost_usd * 1000 > limit * Max2(info_gain, 1)
    IN  IF info_gain < MIN_INFO_GAIN
        THEN << FALSE, "min_info_gain" >>
        ELSE IF test.cost_usd > state.budget_remaining
        THEN << FALSE, "budget" >>
        ELSE IF /\ CostPerBitOver(MAX_COST_PER_BIT)
                /\ state.confidence < HIGH_CONFIDENCE_THRESHOLD
        THEN << FALSE, "cost_per_bit" >>
        ELSE IF /\ state.confidence >= HIGH_CONFIDENCE_THRESHOLD
                /\ \/ info_gain < HIGH_CONF_MIN_GAIN
                   \/ CostPerBitOver(HIGH_CONF_MAX_COST_PER_BIT)
        THEN << FALSE, "high_confidence" >>
        ELSE IF \E i \in 1..Len(state.completed_tests) :
                    _tests_redundant(test.test_id, state.completed_tests[i])
        THEN << FALSE, "redundant" >>
        ELSE << TRUE, "approved" >>

\* Mutant of evaluate_test: the minimum-gain rule is missing.
evaluate_test_no_min_gain(test_request, state) ==
    LET test == test_request.test
        info_gain == test_request.expected_information_gain
        CostPerBitOver(limit) ==
            test.cost_usd * 1000 > limit * Max2(info_gain, 1)
    IN  IF test.cost_usd > state.budget_remaining
        THEN << FALSE, "budget" >>
        ELSE IF /\ CostPerBitOver(MAX_COST_PER_BIT)
                /\ state.confidence < HIGH_CONFIDENCE_THRESHOLD
        THEN << FALSE, "cost_per_bit" >>
        ELSE IF /\ state.confidence >= HIGH_CONFIDENCE_THRESHOLD
                /\ \/ info_gain < HIGH_CONF_MIN_GAIN
                   \/ CostPerBitOver(HIGH_CONF_MAX_COST_PER_BIT)
        THEN << FALSE, "high_confidence" >>
        ELSE IF \E i \in 1..Len(state.completed_tests) :
                    _tests_redundant(test.test_id, state.completed_tests[i])
        THEN << FALSE, "redundant" >>
        ELSE << TRUE, "approved" >>

\* Mutant of evaluate_test: the cost-per-bit rule does not look at the
\* confidence.
evaluate_test_no_confidence_guard(test_request, state) ==
    LET test == test_request.test
        info_gain == test_request.expected_information_gain
        CostPerBitOver(limit) ==
            test.cost_usd * 1000 > limit * Max2(info_gain, 1)
    IN  IF test.cost_usd > state.budget_remaining
        THEN << FALSE, "budget" >>
        ELSE IF info_gain < MIN_INFO_GAIN
        THEN << FALSE, "min_info_gain" >>
        ELSE IF CostPerBitOver(MAX_COST_PER_BIT)
        THEN << FALSE, "cost_per_bit" >>
        ELSE IF /\ state.confidence >= HIGH_CONFIDENCE_THRESHOLD
                /\ \/ info_gain < HIGH_CONF_MIN_GAIN
                   \/ CostPerBitOver(HIGH_CONF_MAX_COST_PER_BIT)
        THEN << FALSE, "high_confidence" >>
        ELSE IF \E i \in 1..Len(state.completed_tests) :
                    _tests_redundant(test.test_id, state.completed_tests[i])
        THEN << FALSE, "redundant" >>
        ELSE << TRUE, "approved" >>

\* (approved, rationale); the rationale text is modelled by the name of the
\* rule that produced it.
evaluate_test(test_request, state) ==
    LET test == test_request.test
        info_gain == test_request.expected_information_gain
        \* cost_per_bit > limit, cost_per_bit = cost_usd / max(info_gain, 0.001)
        CostPerBitOver(limit) ==
            test.cost_usd * 1000 > limit * Max2(info_gain, 1)
    IN  IF test.cost_usd > state.budget_remaining
        THEN << FALSE, "budget" >>
        ELSE IF info_gain < MIN_INFO_GAIN
        THEN << FALSE, "min_info_gain" >>
        ELSE IF /\ CostPerBitOver(MAX_COST_PER_BIT)
                /\ state.confidence < HIGH_CONFIDENCE_THRESHOLD
        THEN << FALSE, "cost_per_bit" >>
        ELSE IF /\ state.confidence >= HIGH_CONFIDENCE_THRESHOLD
                /\ \/ info_gain < HIGH_CONF_MIN_GAIN
                   \/ CostPerBitOver(HIGH_CONF_MAX_COST_PER_BIT)
        THEN << FALSE, "high_confidence" >>
        ELSE IF \E i \in 1..Len(state.completed_tests) :
                    _tests_redundant(test.test_id, state.completed_tests[i])
        THEN << FALSE, "redundant" >>
        ELSE << TRUE, "approved" >>

(***************************************************************************)
(* Knowledge Provider data used by the rule-based fallback:                *)
(* SymptomDiseaseMapper.get_candidates(symptoms, top_k=7) in rank order    *)
(* (known: get_disease_model finds the disease), the regional priors in    *)
(* parts per million, and the genetic risk multipliers in per-mille        *)
(* (hypothesis_node passes no genetic variants, so there are none).        *)
(***************************************************************************)
Candidates ==
    << [disease_id |-> "D1", base_probability |-> 500, known |-> TRUE],
       [disease_id |-> "D2", base_probability |-> 300, known |-> TRUE] >>

EpiPriors == [d \in {"D1"} |-> 200]

GeneticRisks == [d \in {} |-> 1000]

(***************************************************************************)
(* DrHypothesis.                                                           *)
(***************************************************************************)
\* hypotheses.sort(key=probability, reverse=True): stable insertion.
RECURSIVE InsertDesc(_, _)
InsertDesc(sorted, h) ==
    IF sorted = << >> THEN << h >>
    ELSE IF Head(sorted).probability >= h.probability
    THEN << Head(sorted) >> \o InsertDesc(Tail(sorted), h)
    ELSE << h >> \o sorted

RECURSIVE SortDesc(_)
SortDesc(hs) ==
    IF hs = << >> THEN << >>
    ELSE InsertDesc(SortDesc(SubSeq(hs, 1, Len(hs) - 1)), hs[Len(hs)])

\* What the text-generation collaborator can do with one request: raise,
\* answer with text that is not JSON, or answer with a JSON list of items.
LLMOutcomes ==
    { [kind |-> "error",   items |-> << >>],
      [kind |-> "garbage", items |-> << >>],
      [kind |-> "json",
       items |-> << [disease_id |-> "D2", probability |-> 300],
                    [disease_id |-> "D1", probability |-> 600] >>],
      [kind |-> "json",
       items |-> << [disease_id |-> "D1", probability |-> 800],
                    [disease_id |-> "D2", probability |-> 100] >>],
      [kind |-> "json",
       items |-> << [disease_id |-> "D1", probability |-> 900],
                    [disease_id |-> "D2", probability |-> 50] >>],
      [kind |-> "json",
       items |-> << [disease_id |-> "D1", probability |-> 1200] >>] }

\* [raised, hypotheses]: a JSONDecodeError is caught here and gives the empty
\* list; a probability outside [0, 1] fails Hypothesis validation, which is
\* not a JSONDecodeError and propagates to the caller.
_parse_response(response) ==
    IF response.kind = "garbage"
    THEN [raised |-> FALSE, hypotheses |-> << >>]
    ELSE IF \E i \in 1..Len(response.items) :
                \/ response.items[i].probability < 0
                \/ response.items[i].probability > 1000
    THEN [raised |-> TRUE, hypotheses |-> << >>]
    ELSE [raised |-> FALSE, hypotheses |-> SortDesc(response.items)]

RECURSIVE FallbackFrom(_, _, _, _)
FallbackFrom(candidates, i, epi_priors, genetic_risks) ==
    IF candidates = << >> THEN << >>
    ELSE LET c  == Head(candidates)
             b0 == c.base_probability
             b1 == IF c.disease_id \in DOMAIN epi_priors
                   THEN (b0 * (1000 + Min2(epi_priors[c.disease_id], 1000)))
                        \div 1000
                   ELSE b0
             b2 == IF c.disease_id \in DOMAIN genetic_risks
                   THEN (b1 * genetic_risks[c.disease_id]) \div 1000
                   ELSE b1
             b3 == Min2(b2, 900 - i * 100)
             rest == FallbackFrom(Tail(candidates), i + 1, epi_priors,
                                  genetic_risks)
         IN  IF c.known
             THEN << [disease_id |-> c.disease_id,
                      probability |-> Max2(b3, 10)] >> \o rest
             ELSE rest

_fallback_ddx(candidates, epi_priors, genetic_risks) ==
    FallbackFrom(candidates, 0, epi_priors, genetic_risks)

generate_initial_ddx(outcome) ==
    IF outcome.kind = "error" \/ _parse_response(outcome).raised
    THEN _fallback_ddx(Candidates, EpiPriors, GeneticRisks)
    ELSE _parse_response(outcome).hypotheses

update_ddx(state, outcome) ==
    IF outcome.kind = "error" \/ _parse_response(outcome).raised
    THEN state.hypotheses
    ELSE _parse_response(outcome).hypotheses

(***************************************************************************)
(* DiagnosticState (backend/models/diagnosis.py).                          *)
(***************************************************************************)
NewDiagnosticState(budget) ==
    [hypotheses |-> << >>, pending_tests |-> << >>,
     completed_tests |-> << >>, test_results |-> << >>,
     budget_remaining |-> budget, total_cost |-> 0,
     confidence |-> 0, iteration |-> 0]

\* max(hypotheses, key=probability): the first hypothesis of maximal
\* probability; << >> when there is none.
RECURSIVE top_hypothesis(_)
top_hypothesis(hypotheses) ==
    IF hypotheses = << >> THEN << >>
    ELSE LET rest == top_hypothesis(Tail(hypotheses))
         IN  IF rest # << >> /\ rest[1].probability > Head(hypotheses).probability
             THEN rest
             ELSE << Head(hypotheses) >>

\* Mutant of update_confidence: the probability of the last hypothesis of
\* the list is taken instead of the greatest one.
update_confidence_last(ds) ==
    IF ds.hypotheses # << >>
    THEN [ds EXCEPT !.confidence = ds.hypotheses[Len(ds.hypotheses)].probability]
    ELSE ds

update_confidence(ds) ==
    IF top_hypothesis(ds.hypotheses) # << >>
    THEN [ds EXCEPT !.confidence = top_hypothesis(ds.hypotheses)[1].probability]
    ELSE ds

(***************************************************************************)
(* GraphState (backend/agents/orchestrator.py) without its                 *)
(* diagnostic_state, which is one object per session, mutated in place.    *)
(* A node returns a newly constructed GraphState: every field it does not  *)
(* pass has its default.                                                   *)
(***************************************************************************)
GraphState(req, awaiting, approved, veto, complete) ==
    [current_test_request |-> req, awaiting_test_result |-> awaiting,
     test_approved |-> approved, veto_reason |-> veto,
     diagnosis_complete |-> complete]

DefaultGraphState == GraphState(<< >>, FALSE, FALSE, << >>, FALSE)

\* Mutant of should_continue: the budget guard is missing.
should_continue_no_budget(ds) ==
    IF ds.confidence >= confidence_threshold THEN "finalize"
    ELSE IF ds.iteration >= max_iterations THEN "finalize"
    ELSE "test_chooser"

\* Mutant of should_continue: the iteration guard is missing.
should_continue_no_limit(ds) ==
    IF ds.confidence >= confidence_threshold THEN "finalize"
    ELSE IF ds.budget_remaining <= 0 THEN "finalize"
    ELSE "test_chooser"

should_continue(ds) ==
    IF ds.confidence >= confidence_threshold THEN "finalize"
    ELSE IF ds.iteration >= max_iterations THEN "finalize"
    ELSE IF ds.budget_remaining <= 0 THEN "finalize"
    ELSE "test_chooser"

\* Mutant of should_await_or_loop: a vetoed proposal goes back to the test
\* selector instead of the hypothesis generator.
should_await_or_loop_retry(g) ==
    IF g.awaiting_test_result THEN "END"
    ELSE IF g.test_approved THEN "END"
    ELSE IF g.diagnosis_complete THEN "finalize"
    ELSE "test_chooser"

\* Mutant of should_await_or_loop: diagnosis_complete is not looked at.
should_await_or_loop_no_end(g) ==
    IF g.awaiting_test_result THEN "END"
    ELSE IF g.test_approved THEN "END"
    ELSE "hypothesis"

\* Mutant of should_await_or_loop: a veto ends the run instead of looping
\* back to the hypothesis node.
should_await_or_loop_end_on_veto(g) ==
    IF g.awaiting_test_result THEN "END"
    ELSE IF g.test_approved THEN "END"
    ELSE IF g.diagnosis_complete THEN "finalize"
    ELSE "END"

\* Mutant of should_await_or_loop: a veto finalizes the diagnosis.
should_await_or_loop_finalize_on_veto(g) ==
    IF g.awaiting_test_result THEN "END"
    ELSE IF g.test_approved THEN "END"
    ELSE "finalize"

\* The node each answer of should_await_or_loop is wired to by
\* build_diagnostic_graph: await_results to END, end to finalize.
should_await_or_loop(g) ==
    IF g.awaiting_test_result THEN "END"
    ELSE IF g.test_approved THEN "END"
    ELSE IF g.diagnosis_complete THEN "finalize"
    ELSE "hypothesis"

(***************************************************************************)
(* State.                                                                  *)
(*   sessions  DiagnosticLoopService.sessions: session id -> session, a    *)
(*             session being [state, status, passes]; state is the         *)
(*             session's GraphState with its diagnostic_state; passes      *)
(*             counts the HYPOTHESIS passes made on the session (history,  *)
(*             not a field of the code).                                   *)
(*   calls     the run_iteration calls in flight, one slot per caller:     *)
(*             pc is the graph node about to run ("idle": no call),        *)
(*             g the GraphState the graph passes on, initial what          *)
(*             hypothesis_node read of "iteration == 0" before awaiting    *)
(*             the collaborator; entry and passes record the               *)
(*             diagnostic_state at the start of the call and the           *)
(*             HYPOTHESIS passes of the call (history).                    *)
(*   last      the most recent operation and what it returned or raised.   *)
(* DiagnosticSession.history is write-only in the code and is left out.    *)
(***************************************************************************)
VARIABLES sessions, calls, last

vars == << sessions, calls, last >>

\* The ids start_diagnosis hands out, in order (uuid4 in the code), and the
\* ids a client may pass: the last one is never handed out.
SessionIds == << "s1" >>

SessionInputs == {"s1", "s2"}

Callers == {1, 2}

Results == {"positive", "negative"}

IdleCall ==
    [pc |-> "idle", session_id |-> "", g |-> DefaultGraphState,
     initial |-> FALSE, entry |-> NewDiagnosticState(0), passes |-> 0]

Init ==
    /\ sessions = << >>
    /\ calls = [c \in Callers |-> IdleCall]
    /\ last = [op |-> "none", session_id |-> "", outcome |-> "none",
               value |-> << >>]

Known(s) == s \in DOMAIN sessions

DS(s) == sessions[s].state.diagnostic_state

\* No run_iteration is in flight: the client awaits each call.
Sequential == \A c \in Callers : calls[c].pc = "idle"

Returned(op, s, value) ==
    [op |-> op, session_id |-> s, outcome |-> "returned", value |-> value]

Raised(op, s) ==
    [op |-> op, session_id |-> s, outcome |-> "ValueError", value |-> << >>]

(***************************************************************************)
(* DiagnosticLoopService.start_diagnosis: a new session under a fresh id.  *)
(***************************************************************************)
\* ids: the ids uuid4 hands out, in order.
start_diagnosis_from(ids, s) ==
    /\ Cardinality(DOMAIN sessions) < Len(ids)
    /\ s = ids[Cardinality(DOMAIN sessions) + 1]
    /\ sessions' = (s :> [state |-> [diagnostic_state |->
                                        NewDiagnosticState(default_budget_usd)]
                                    @@ DefaultGraphState,
                          status |-> "started", passes |-> 0]) @@ sessions
    /\ last' = Returned("start_diagnosis", s, << >>)
    /\ UNCHANGED calls

start_diagnosis(s) == start_diagnosis_from(SessionIds, s)

(***************************************************************************)
(* DiagnosticLoopService.run_iteration, up to graph.ainvoke: the lookup,   *)
(* and the graph entered at its entry point with session.state.            *)
(***************************************************************************)
run_iteration_begin(c, s) ==
    /\ calls[c].pc = "idle"
    /\ IF ~Known(s)
       THEN /\ last' = Raised("run_iteration", s)
            /\ UNCHANGED << sessions, calls >>
       ELSE /\ DS(s).iteration < MaxPasses
            /\ calls' = [calls EXCEPT ![c] =
                  [pc |-> "hypothesis", session_id |-> s,
                   g |-> [f \in DOMAIN DefaultGraphState |->
                             sessions[s].state[f]],
                   initial |-> FALSE, entry |-> DS(s), passes |-> 0]]
            /\ last' = [op |-> "run_iteration", session_id |-> s,
                        outcome |-> "running", value |-> << >>]
            /\ UNCHANGED sessions

(***************************************************************************)
(* hypothesis_node up to the await of the collaborator: the choice between *)
(* generate_initial_ddx and update_ddx is made on ds.iteration.            *)
(***************************************************************************)
hypothesis_node_call(c) ==
    /\ calls[c].pc = "hypothesis"
    /\ calls' = [calls EXCEPT ![c].pc = "hypothesis_llm",
                              ![c].initial = (DS(calls[c].session_id).iteration = 0)]
    /\ UNCHANGED << sessions, last >>

\* Mutant of HypothesisUpdate: the iteration counter is not incremented.
HypothesisUpdate_no_increment(ds, initial, outcome) ==
    LET hypotheses == IF initial THEN generate_initial_ddx(outcome)
                      ELSE update_ddx(ds, outcome)
    IN  update_confidence([ds EXCEPT !.hypotheses = hypotheses])

\* The state hypothesis_node leaves once the collaborator has answered.
HypothesisUpdate(ds, initial, outcome) ==
    LET hypotheses == IF initial THEN generate_initial_ddx(outcome)
                      ELSE update_ddx(ds, outcome)
        updated == update_confidence([ds EXCEPT !.hypotheses = hypotheses])
    IN  [updated EXCEPT !.iteration = @ + 1]

(***************************************************************************)
(* hypothesis_node from the collaborator's answer on, and the conditional  *)
(* edge should_continue.                                                   *)
(***************************************************************************)
hypothesis_node_return(c, outcome) ==
    /\ calls[c].pc = "hypothesis_llm"
    /\ LET s  == calls[c].session_id
           ds == HypothesisUpdate(DS(s), calls[c].initial, outcome)
       IN  /\ sessions' = [sessions EXCEPT ![s].state.diagnostic_state = ds,
                                           ![s].passes = @ + 1]
           /\ calls' = [calls EXCEPT
                 ![c].g = GraphState(<< >>, FALSE, FALSE, << >>, FALSE),
                 ![c].passes = @ + 1,
                 ![c].pc = should_continue(ds)]
    /\ UNCHANGED last

(***************************************************************************)
(* test_chooser_node, and the edge to stewardship.                         *)
(***************************************************************************)
test_chooser_node(c) ==
    /\ calls[c].pc = "test_chooser"
    /\ \E test_request \in
              {select_next_test(TestCatalog, DS(calls[c].session_id), << >>)} :
           calls' = [calls EXCEPT
                 ![c].g = IF test_request = << >>
                          THEN GraphState(<< >>, FALSE, FALSE, << >>, TRUE)
                          ELSE GraphState(test_request, FALSE, FALSE, << >>,
                                          FALSE),
                 ![c].pc = "stewardship"]
    /\ UNCHANGED << sessions, last >>

\* Mutant of Deduct: the running total is deducted instead of the cost.
Deduct_running_total(ds, test) ==
    [ds EXCEPT !.budget_remaining = @ - (ds.total_cost + test.cost_usd),
               !.total_cost = @ + test.cost_usd,
               !.pending_tests = Append(@, test.test_id)]

\* Mutant of Deduct: the approved test is not recorded as pending.
Deduct_no_pending(ds, test) ==
    [ds EXCEPT !.budget_remaining = @ - test.cost_usd,
               !.total_cost = @ + test.cost_usd]

\* What stewardship_node does to the diagnostic state on approval.
\* Mutant of Deduct: the signs of the two updates are exchanged.
Deduct_signs_exchanged(ds, test) ==
    [ds EXCEPT !.budget_remaining = @ + test.cost_usd,
               !.total_cost = @ - test.cost_usd,
               !.pending_tests = Append(@, test.test_id)]

\* Mutant of Deduct: total_cost is not updated.
Deduct_budget_only(ds, test) ==
    [ds EXCEPT !.budget_remaining = @ - test.cost_usd,
               !.pending_tests = Append(@, test.test_id)]

Deduct(ds, test) ==
    [ds EXCEPT !.budget_remaining = @ - test.cost_usd,
               !.total_cost = @ + test.cost_usd,
               !.pending_tests = Append(@, test.test_id)]

\* Mutant of stewardship_node: the cost is deducted and the test recorded
\* as pending before the verdict is looked at.
stewardship_node_charge_on_veto(c) ==
    /\ calls[c].pc = "stewardship"
    /\ LET s   == calls[c].session_id
           req == calls[c].g.current_test_request
           verdict  == evaluate_test(req[1], DS(s))
           approved == verdict[1]
           g == IF req = << >>
                THEN GraphState(<< >>, FALSE, FALSE, << >>, TRUE)
                ELSE GraphState(IF approved THEN req ELSE << >>, approved,
                                approved,
                                IF approved THEN << >> ELSE << verdict[2] >>,
                                FALSE)
       IN  /\ sessions' =
                 IF req # << >>
                 THEN [sessions EXCEPT ![s].state.diagnostic_state =
                          Deduct(@, req[1].test)]
                 ELSE sessions
           /\ calls' = [calls EXCEPT ![c].g = g,
                                     ![c].pc = should_await_or_loop(g)]
    /\ UNCHANGED last

(***************************************************************************)
(* stewardship_node, and the conditional edge should_await_or_loop.        *)
(***************************************************************************)
stewardship_node(c) ==
    /\ calls[c].pc = "stewardship"
    /\ LET s   == calls[c].session_id
           req == calls[c].g.current_test_request
           verdict  == evaluate_test(req[1], DS(s))
           approved == verdict[1]
           g == IF req = << >>
                THEN GraphState(<< >>, FALSE, FALSE, << >>, TRUE)
                ELSE GraphState(IF approved THEN req ELSE << >>, approved,
                                approved,
                                IF approved THEN << >> ELSE << verdict[2] >>,
                                FALSE)
       IN  /\ sessions' =
                 IF req # << >> /\ approved
                 THEN [sessions EXCEPT ![s].state.diagnostic_state =
                          Deduct(@, req[1].test)]
                 ELSE sessions
           /\ calls' = [calls EXCEPT ![c].g = g,
                                     ![c].pc = should_await_or_loop(g)]
    /\ UNCHANGED last

(***************************************************************************)
(* finalize_node, and the edge to END.                                     *)
(***************************************************************************)
finalize_node(c) ==
    /\ calls[c].pc = "finalize"
    /\ calls' = [calls EXCEPT
          ![c].g = GraphState(<< >>, FALSE, FALSE, << >>, TRUE),
          ![c].pc = "END"]
    /\ UNCHANGED << sessions, last >>

(***************************************************************************)
(* DiagnosticLoopService.run_iteration, from the return of graph.ainvoke:  *)
(* the result becomes the session's state and decides its status.          *)
(***************************************************************************)
run_iteration_end(c) ==
    /\ calls[c].pc = "END"
    /\ LET s == calls[c].session_id
           result == calls[c].g
       IN  /\ sessions' = [sessions EXCEPT
                 ![s].state = [diagnostic_state |-> DS(s)] @@ result,
                 ![s].status = IF result.diagnosis_complete THEN "complete"
                               ELSE IF result.awaiting_test_result
                               THEN "awaiting_test"
                               ELSE @]
           /\ last' = Returned("run_iteration", s,
                               result.current_test_request)
    /\ calls' = [calls EXCEPT ![c] = IdleCall]

\* Mutant of submit_test_result: an unknown session id is not rejected.
submit_test_result_no_lookup(s, test_id, result) ==
    /\ last' = Returned("submit_test_result", s, << >>)
    /\ UNCHANGED << sessions, calls >>

\* Mutant of submit_test_result: the lists of DiagnosticState are shared by
\* all its instances (one default list instead of a default_factory), so
\* the completed test is appended for every session.
submit_test_result_shared_lists(s, test_id, result) ==
    IF ~Known(s)
    THEN /\ last' = Raised("submit_test_result", s)
         /\ UNCHANGED << sessions, calls >>
    ELSE /\ sessions' =
              [x \in DOMAIN sessions |->
                  [sessions[x] EXCEPT
                     !.state.diagnostic_state.completed_tests =
                         Append(@, test_id),
                     !.status = IF x = s THEN "running" ELSE @]]
         /\ last' = Returned("submit_test_result", s, << >>)
         /\ UNCHANGED calls

(***************************************************************************)
(* DiagnosticLoopService.submit_test_result.                               *)
(***************************************************************************)
submit_test_result(s, test_id, result) ==
    IF ~Known(s)
    THEN /\ last' = Raised("submit_test_result", s)
         /\ UNCHANGED << sessions, calls >>
    ELSE /\ Len(DS(s).completed_tests) < MaxCompleted
         /\ LET ds == DS(s)
                updated ==
                    [ds EXCEPT
                       !.test_results = (test_id :> result) @@ @,
                       !.pending_tests =
                           IF test_id \in Range(@)
                           THEN RemoveFirst(@, test_id) ELSE @,
                       !.completed_tests = Append(@, test_id)]
            IN  sessions' = [sessions EXCEPT
                   ![s].state = [diagnostic_state |-> updated]
                                @@ GraphState(<< >>, FALSE, FALSE, << >>,
                                              FALSE),
                   ![s].status = "running"]
         /\ last' = Returned("submit_test_result", s, << >>)
         /\ UNCHANGED calls

(***************************************************************************)
(* DiagnosticLoopService.get_result.                                       *)
(***************************************************************************)
DiagnosisResult(ds) ==
    [final_diagnosis |-> top_hypothesis(ds.hypotheses)[1].disease_id,
     confidence |-> ds.confidence,
     differential |-> ds.hypotheses,
     tests_ordered |-> ds.completed_tests,
     total_cost |-> ds.total_cost,
     iterations |-> ds.iteration]

\* Mutant of get_result: the session's status is not looked at.
get_result_any_status(s) ==
    /\ last' = Returned("get_result", s,
          IF ~Known(s) THEN << >>
          ELSE IF top_hypothesis(DS(s).hypotheses) = << >> THEN << >>
          ELSE << DiagnosisResult(DS(s)) >>)
    /\ UNCHANGED << sessions, calls >>

get_result(s) ==
    /\ last' = Returned("get_result", s,
          IF ~Known(s) THEN << >>
          ELSE IF sessions[s].status # "complete" THEN << >>
          ELSE IF top_hypothesis(DS(s).hypotheses) = << >> THEN << >>
          ELSE << DiagnosisResult(DS(s)) >>)
    /\ UNCHANGED << sessions, calls >>

(***************************************************************************)
(* The service used by a client that awaits each call before it makes the *)
(* next one.                                                               *)
(***************************************************************************)
Next ==
    \/ \E s \in SessionInputs : Sequential /\ start_diagnosis(s)
    \/ \E s \in SessionInputs : Sequential /\ run_iteration_begin(1, s)
    \/ hypothesis_node_call(1)
    \/ \E outcome \in LLMOutcomes : hypothesis_node_return(1, outcome)
    \/ test_chooser_node(1)
    \/ stewardship_node(1)
    \/ finalize_node(1)
    \/ run_iteration_end(1)
    \/ \E s \in SessionInputs, t \in TestIds, r \in Results :
           Sequential /\ submit_test_result(s, t, r)
    \/ \E s \in SessionInputs : Sequential /\ get_result(s)

Spec == Init /\ [][Next]_vars

(***************************************************************************)
(* The same service under a scheduler that runs every graph step of a call *)
(* in flight, and a collaborator that always answers or raises: asyncio    *)
(* resumes an awaiting coroutine once what it awaits is done.              *)
(***************************************************************************)
GraphStep ==
    \/ hypothesis_node_call(1)
    \/ \E outcome \in LLMOutcomes : hypothesis_node_return(1, outcome)
    \/ test_chooser_node(1)
    \/ stewardship_node(1)
    \/ finalize_node(1)
    \/ run_iteration_end(1)

SpecFair == Spec /\ WF_vars(GraphStep)

(***************************************************************************)
(* The service used by clients that do not wait for one another.  Every    *)
(* await of a coroutine is a point where the event loop may run another    *)
(* call; start_diagnosis, submit_test_result and get_result have no await  *)
(* that yields, so each is one step.  The collaborator's answers are drawn *)
(* from a smaller set and a session is driven less far than in Spec.       *)
(***************************************************************************)
ConcOutcomes ==
    { o \in LLMOutcomes :
        \/ o.kind = "garbage"
        \/ o.kind = "json" /\ o.items[1].probability \in {300, 900} }

\* run_iteration is not started on a session that already made this many
\* HYPOTHESIS passes.
ConcPasses == 1

\* submit_test_result is not called on a session whose completed_tests
\* already has this many entries.
ConcCompleted == 1

\* The steps of the run_iteration call of caller c.
GraphStepOf(c, outcomes) ==
    \/ hypothesis_node_call(c)
    \/ \E outcome \in outcomes : hypothesis_node_return(c, outcome)
    \/ test_chooser_node(c)
    \/ stewardship_node(c)
    \/ finalize_node(c)
    \/ run_iteration_end(c)

\* One session, and two run_iteration calls that may be in flight on it at
\* once, with submit_test_result and get_result at any time.
NextConc ==
    \/ \E s \in SessionInputs : start_diagnosis(s)
    \/ \E c \in Callers, s \in SessionInputs :
           /\ Known(s) => DS(s).iteration < ConcPasses
           /\ run_iteration_begin(c, s)
    \/ \E c \in Callers : GraphStepOf(c, ConcOutcomes)
    \/ \E s \in SessionInputs, t \in TestIds, r \in Results :
           /\ Known(s) => Len(DS(s).completed_tests) < ConcCompleted
           /\ submit_test_result(s, t, r)
    \/ \E s \in SessionInputs : get_result(s)

SpecConc == Init /\ [][NextConc]_vars

\* Two sessions, each with its own client: caller c works on the c-th
\* session, awaits each of its calls, and does not wait for the other.
TwoSessionIds == << "s1", "s2" >>

ClientIdle(c) == calls[c].pc = "idle"

\* The result is only stored, never read by the service: one value.
TwoResults == {"positive"}

NextTwo ==
    \/ \E s \in Range(TwoSessionIds) : start_diagnosis_from(TwoSessionIds, s)
    \/ \E c \in Callers :
           /\ Known(TwoSessionIds[c]) =>
                 DS(TwoSessionIds[c]).iteration < ConcPasses
           /\ run_iteration_begin(c, TwoSessionIds[c])
    \/ \E c \in Callers : GraphStepOf(c, ConcOutcomes)
    \/ \E c \in Callers, t \in TestIds, r \in TwoResults :
           /\ ClientIdle(c)
           /\ Known(TwoSessionIds[c]) =>
                 Len(DS(TwoSessionIds[c]).completed_tests) < ConcCompleted
           /\ submit_test_result(TwoSessionIds[c], t, r)
    \/ \E c \in Callers : ClientIdle(c) /\ get_result(TwoSessionIds[c])

SpecTwo == Init /\ [][NextTwo]_vars

(***************************************************************************)
(* DrStewardship.evaluate_test called directly, as the unit tests and      *)
(* evaluate_test_with_llm do, on test requests and states that the         *)
(* workflow need not produce: last records the arguments with the verdict. *)
(***************************************************************************)
\* Two tests that detect the same disease, at each of a few costs.
GateTests ==
    { [test_id |-> id, cost_usd |-> cost, sensitivity |-> 900,
       specificity |-> 950, diseases_detected |-> {"D1"}] :
          id \in {"T1", "T3"}, cost \in {0, 25, 100, 600} }

GateRequests ==
    { [test |-> t, expected_information_gain |-> gain] :
          t \in GateTests, gain \in {0, 40, 50, 200, 1000} }

GateStates ==
    { [NewDiagnosticState(budget) EXCEPT !.confidence = confidence,
                                         !.completed_tests = completed] :
          budget \in {0, 100, default_budget_usd},
          confidence \in {0, HIGH_CONFIDENCE_THRESHOLD},
          completed \in {<< >>, << "T1" >>, << "T3", "T1" >>} }

\* Mutant of evaluate_test_effect: the gate deducts the cost of a test it
\* approves from the state it was given.
evaluate_test_effect_deducts(test_request, state) ==
    [test_request |-> test_request,
     state |-> IF evaluate_test(test_request, state)[1]
               THEN [state EXCEPT !.budget_remaining =
                                      @ - test_request.test.cost_usd]
               ELSE state]

\* The two arguments of evaluate_test as the call leaves them: the method
\* reads test_request and state and assigns to no attribute of either.
evaluate_test_effect(test_request, state) ==
    [test_request |-> test_request, state |-> state]

evaluate_test_call(test_request, state) ==
    /\ last' = [op |-> "evaluate_test", session_id |-> "",
                outcome |-> "returned",
                value |-> evaluate_test(test_request, state),
                test_request |-> test_request, state |-> state,
                after |-> evaluate_test_effect(test_request, state)]
    /\ UNCHANGED << sessions, calls >>

\* suggest_alternative(vetoed_test, available_tests, state): the tests that
\* pass the four `continue` filters and share a disease with the vetoed
\* test, sorted by (-overlap, cost_usd); the first one, or None.  The sort is
\* stable, so among equal keys the earlier test of available_tests wins.
suggest_alternative(vetoed_test, available_tests, state) ==
    LET overlap(test) ==
            Cardinality(test.diseases_detected
                            \cap vetoed_test.diseases_detected)
        alternatives ==
            SelectSeq(available_tests, LAMBDA test :
                /\ test.test_id # vetoed_test.test_id
                /\ test.test_id \notin Range(state.completed_tests)
                /\ ~(test.cost_usd >= vetoed_test.cost_usd)
                /\ ~(test.cost_usd > state.budget_remaining)
                /\ overlap(test) > 0)
        KeyLess(a, b) ==
            \/ overlap(a) > overlap(b)
            \/ overlap(a) = overlap(b) /\ a.cost_usd < b.cost_usd
        first == CHOOSE i \in 1..Len(alternatives) :
                    /\ \A j \in 1..Len(alternatives) :
                           ~KeyLess(alternatives[j], alternatives[i])
                    /\ \A j \in 1..(i - 1) :
                           KeyLess(alternatives[i], alternatives[j])
    IN  IF alternatives = << >> THEN << >> ELSE << alternatives[first] >>

\* A catalog for suggest_alternative: tests that differ in cost and in how
\* many diseases they share.
AltTest(id, cost, diseases) ==
    [test_id |-> id, cost_usd |-> cost, sensitivity |-> 900,
     specificity |-> 950, diseases_detected |-> diseases]

AltCatalog ==
    << AltTest("A1", 100, {"D1", "D2"}), AltTest("A2", 50, {"D1", "D2"}),
       AltTest("A3", 10, {"D1"}), AltTest("A4", 100, {"D2"}),
       AltTest("A5", 20, {"D3"}) >>

AltStates ==
    { [NewDiagnosticState(budget) EXCEPT !.completed_tests = completed] :
        budget \in {0, 30, default_budget_usd},
        completed \in {<< >>, << "A2" >>, << "A3" >>} }

suggest_alternative_call(vetoed_test, state) ==
    /\ last' = [op |-> "suggest_alternative", session_id |-> "",
                outcome |-> "returned",
                value |-> suggest_alternative(vetoed_test, AltCatalog, state),
                vetoed_test |-> vetoed_test, state |-> state]
    /\ UNCHANGED << sessions, calls >>

NextGate ==
    \/ \E test_request \in GateRequests, state \in GateStates :
           evaluate_test_call(test_request, state)
    \/ \E vetoed_test \in Range(AltCatalog), state \in AltStates :
           suggest_alternative_call(vetoed_test, state)

SpecGate == Init /\ [][NextGate]_vars

(***************************************************************************)
(* DrTestChooser called directly: select_next_test and                     *)
(* compute_expected_entropy_reduction are functions of their arguments and *)
(* of the test catalog, so each call is one step that records the          *)
(* arguments and the value returned.                                       *)
(***************************************************************************)
\* A catalog whose first test is a twin of T1 under another id, so that two
\* tests tie on value; T2 has the larger gain and the smaller value.
ChooserCatalog ==
    << [TestCatalog[1] EXCEPT !.test_id = "T3"] >> \o TestCatalog

ChooserHypotheses ==
    { << >>,
      << [disease_id |-> "D1", probability |-> 600],
         [disease_id |-> "D2", probability |-> 300] >>,
      << [disease_id |-> "D1", probability |-> 500],
         [disease_id |-> "D2", probability |-> 500] >>,
      << [disease_id |-> "D1", probability |-> 1000] >>,
      << [disease_id |-> "D1", probability |-> 1000],
         [disease_id |-> "D2", probability |-> 1000] >>,
      << [disease_id |-> "D1", probability |-> 0],
         [disease_id |-> "D2", probability |-> 0] >> }

ChooserStates ==
    { [NewDiagnosticState(budget) EXCEPT !.hypotheses = hypotheses,
                                         !.completed_tests = completed] :
        budget \in {0, 25, default_budget_usd},
        hypotheses \in ChooserHypotheses,
        completed \in {<< >>, << "T3" >>, << "T1", "T3" >>,
                       << "T3", "T1", "T2" >>} }

\* max_cost: None, 0, or a positive ceiling.
ChooserMaxCosts == {<< >>, << 0 >>, << 25 >>, << default_budget_usd >>}

select_next_test_call(state, max_cost) ==
    /\ last' = [op |-> "select_next_test", session_id |-> "",
                outcome |-> "returned",
                value |-> select_next_test(ChooserCatalog, state, max_cost),
                state |-> state, max_cost |-> max_cost]
    /\ UNCHANGED << sessions, calls >>

compute_expected_entropy_reduction_call(test, hypotheses) ==
    /\ last' = [op |-> "compute_expected_entropy_reduction",
                session_id |-> "", outcome |-> "returned",
                value |-> compute_expected_entropy_reduction(test, hypotheses),
                test |-> test, hypotheses |-> hypotheses]
    /\ UNCHANGED << sessions, calls >>

\* Hypothesis lists for compute_entropy: those of the chooser, a fair coin
\* with a third hypothesis of probability 0, and four equal hypotheses.
EntropyHypotheses ==
    ChooserHypotheses \cup
    { << [disease_id |-> "D1", probability |-> 500],
         [disease_id |-> "D3", probability |-> 0],
         [disease_id |-> "D2", probability |-> 500] >>,
      << [disease_id |-> "D1", probability |-> 250],
         [disease_id |-> "D2", probability |-> 250],
         [disease_id |-> "D3", probability |-> 250],
         [disease_id |-> "D4", probability |-> 250] >> }

compute_entropy_call(hypotheses) ==
    /\ last' = [op |-> "compute_entropy", session_id |-> "",
                outcome |-> "returned",
                value |-> compute_entropy[hypotheses],
                hypotheses |-> hypotheses]
    /\ UNCHANGED << sessions, calls >>

\* The hypothesis after estimate_posterior: the method reads it and assigns
\* to none of its attributes.
estimate_posterior_effect(hypothesis, test, result_positive) == hypothesis

PosteriorHypotheses ==
    { [disease_id |-> d, probability |-> p] :
        d \in {"D1", "D2"}, p \in {0, 300, 600, 1000} }

estimate_posterior_call(hypothesis, test, result_positive) ==
    /\ last' = [op |-> "estimate_posterior", session_id |-> "",
                outcome |-> "returned",
                value |-> estimate_posterior(hypothesis, test, result_positive),
                hypothesis |-> hypothesis, test |-> test,
                result_positive |-> result_positive,
                after |-> estimate_posterior_effect(hypothesis, test,
                                                    result_positive)]
    /\ UNCHANGED << sessions, calls >>

NextChooser ==
    \/ \E state \in ChooserStates, max_cost \in ChooserMaxCosts :
           select_next_test_call(state, max_cost)
    \/ \E test \in Range(ChooserCatalog), hypotheses \in ChooserHypotheses :
           compute_expected_entropy_reduction_call(test, hypotheses)
    \/ \E hypotheses \in EntropyHypotheses : compute_entropy_call(hypotheses)
    \/ \E hypothesis \in PosteriorHypotheses, test \in Range(ChooserCatalog),
          result_positive \in BOOLEAN :
           estimate_posterior_call(hypothesis, test, result_positive)

SpecChooser == Init /\ [][NextChooser]_vars

(***************************************************************************)
(* DrHypothesis._fallback_ddx called directly on candidate lists as        *)
(* get_candidates returns them (ranked by score, so base_probability does  *)
(* not increase along the list), prior maps and genetic risk maps.         *)
(***************************************************************************)
FallbackCandidate(id, base, known) ==
    [disease_id |-> id, base_probability |-> base, known |-> known]

FallbackCandidateLists ==
    { << >>,
      << FallbackCandidate("D1", 1000, TRUE) >>,
      << FallbackCandidate("D1", 500, TRUE),
         FallbackCandidate("D2", 300, TRUE) >>,
      << FallbackCandidate("D1", 300, TRUE),
         FallbackCandidate("D2", 250, TRUE) >>,
      << FallbackCandidate("D1", 400, FALSE),
         FallbackCandidate("D2", 400, TRUE),
         FallbackCandidate("D3", 200, TRUE) >>,
      << FallbackCandidate("D1", 996, TRUE),
         FallbackCandidate("D2", 4, TRUE) >> }

\* Dict[str, float] over some of the diseases, one value per key.
FallbackMaps(values) ==
    UNION { [keys -> values] : keys \in SUBSET {"D1", "D2"} }

\* epi_priors[d] * 1000, in thousandths: 0.0002 and 0.001 and above.
FallbackPriors == FallbackMaps({200, 1000})

\* Risk multipliers, in thousandths: 0 and 2.
FallbackRisks == FallbackMaps({0, 2000})

_fallback_ddx_call(candidates, epi_priors, genetic_risks) ==
    /\ last' = [op |-> "_fallback_ddx", session_id |-> "",
                outcome |-> "returned",
                value |-> _fallback_ddx(candidates, epi_priors, genetic_risks),
                candidates |-> candidates, epi_priors |-> epi_priors,
                genetic_risks |-> genetic_risks]
    /\ UNCHANGED << sessions, calls >>

NextFallback ==
    \E candidates \in FallbackCandidateLists, epi_priors \in FallbackPriors,
       genetic_risks \in FallbackRisks :
        _fallback_ddx_call(candidates, epi_priors, genetic_risks)

SpecFallback == Init /\ [][NextFallback]_vars

(***************************************************************************)
(* Properties.                                                             *)
(***************************************************************************)
\* The diagnostic state of session s after the step.
DSp(s) == sessions'[s].state.diagnostic_state

\* HYPOTHESIS is the node from its start to the collaborator's answer.
Node(pc) == IF pc = "hypothesis_llm" THEN "hypothesis" ELSE pc

InFlight(c) == calls[c].pc # "idle"

\* C1: in every reachable state the budget_remaining of every session is
\* at least 0.
C1_BudgetNonNegative ==
    \A s \in DOMAIN sessions : DS(s).budget_remaining >= 0

\* The whole budget has been spent on approved tests.
C1_Witness ==
    \E s \in DOMAIN sessions :
        /\ DS(s).budget_remaining = 0
        /\ DS(s).total_cost = default_budget_usd

\* C2: a STEWARDSHIP step that approves a test of cost c deducts exactly c
\* from budget_remaining, adds exactly c to total_cost, appends the test id
\* to pending_tests and suspends the workflow with the request kept; the
\* run_iteration then ends with the budget, the cost and the pending tests
\* changed by exactly that since its start, the session awaiting the test
\* and the approved request returned.
C2_ApprovalEffects ==
    [][\A c \in Callers :
        /\ (calls[c].pc = "stewardship" /\ calls'[c].g.test_approved) =>
              LET s   == calls[c].session_id
                  req == calls[c].g.current_test_request
              IN  /\ req # << >>
                  /\ DSp(s).budget_remaining
                        = DS(s).budget_remaining - req[1].test.cost_usd
                  /\ DSp(s).total_cost = DS(s).total_cost + req[1].test.cost_usd
                  /\ DSp(s).pending_tests
                        = Append(DS(s).pending_tests, req[1].test.test_id)
                  /\ calls'[c].pc = "END"
                  /\ calls'[c].g.awaiting_test_result
                  /\ calls'[c].g.current_test_request = req
        /\ (calls[c].pc = "END" /\ calls[c].g.test_approved) =>
              LET s     == calls[c].session_id
                  req   == calls[c].g.current_test_request
                  entry == calls[c].entry
              IN  /\ req # << >>
                  /\ DSp(s).budget_remaining
                        = entry.budget_remaining - req[1].test.cost_usd
                  /\ DSp(s).total_cost = entry.total_cost + req[1].test.cost_usd
                  /\ DSp(s).pending_tests
                        = Append(entry.pending_tests, req[1].test.test_id)
                  /\ sessions'[s].state.awaiting_test_result
                  /\ sessions'[s].status = "awaiting_test"
                  /\ last' = Returned("run_iteration", s, req)
      ]_vars

\* The end-to-end scenario: budget 500, the $25 test approved.
C2_Witness ==
    /\ last.op = "run_iteration" /\ last.outcome = "returned"
    /\ last.value # << >>
    /\ last.value[1].test.test_id = "T1"
    /\ Known(last.session_id)
    /\ DS(last.session_id).budget_remaining = 475
    /\ DS(last.session_id).total_cost = 25
    /\ DS(last.session_id).pending_tests = << "T1" >>
    /\ sessions[last.session_id].status = "awaiting_test"

\* C3: after a HYPOTHESIS step the workflow is in TEST_CHOOSER if
\* confidence < confidence_threshold and iteration < max_iterations and
\* budget_remaining > 0, and in FINALIZE otherwise; TEST_CHOOSER is entered
\* from nowhere else.
C3_HypothesisGuards ==
    [][\A c \in Callers :
        /\ calls[c].pc = "hypothesis_llm" =>
              LET ds == DSp(calls[c].session_id)
              IN  calls'[c].pc =
                     IF ds.confidence >= confidence_threshold THEN "finalize"
                     ELSE IF ds.iteration >= max_iterations THEN "finalize"
                     ELSE IF ds.budget_remaining <= 0 THEN "finalize"
                     ELSE "test_chooser"
        /\ (calls'[c].pc = "test_chooser" /\ calls[c].pc # "test_chooser") =>
              LET ds == DSp(calls[c].session_id)
              IN  /\ calls[c].pc = "hypothesis_llm"
                  /\ ds.confidence < confidence_threshold
                  /\ ds.iteration < max_iterations
                  /\ ds.budget_remaining > 0
      ]_vars

\* A HYPOTHESIS step has gone to FINALIZE on the budget guard alone.
C3_Witness ==
    \E c \in Callers :
        /\ calls[c].pc = "finalize"
        /\ ~calls[c].g.diagnosis_complete
        /\ DS(calls[c].session_id).confidence < confidence_threshold
        /\ DS(calls[c].session_id).iteration < max_iterations
        /\ DS(calls[c].session_id).budget_remaining <= 0

\* C4: the workflow of a run_iteration starts at HYPOTHESIS and only moves
\* HYPOTHESIS -> TEST_CHOOSER | FINALIZE, TEST_CHOOSER -> STEWARDSHIP,
\* STEWARDSHIP -> END awaiting the result | HYPOTHESIS on a veto | FINALIZE,
\* FINALIZE -> END.
C4_Transitions ==
    [][\A c \in Callers :
        LET from == Node(calls[c].pc)
            to   == Node(calls'[c].pc)
        IN  \/ from = to
            \/ from = "idle" /\ to = "hypothesis"
            \/ from = "hypothesis" /\ to \in {"test_chooser", "finalize"}
            \/ from = "test_chooser" /\ to = "stewardship"
            \/ /\ from = "stewardship" /\ to = "END"
               /\ calls'[c].g.awaiting_test_result
            \/ /\ from = "stewardship" /\ to = "hypothesis"
               /\ calls'[c].g.veto_reason # << >>
            \/ from = "stewardship" /\ to = "finalize"
            \/ from = "finalize" /\ to = "END"
            \/ from = "END" /\ to = "idle"
      ]_vars

\* A veto has sent the workflow back to HYPOTHESIS.
C4_Witness ==
    \E c \in Callers :
        /\ calls[c].pc = "hypothesis"
        /\ calls[c].passes > 0
        /\ calls[c].g.veto_reason # << >>

\* C5: a run_iteration makes at most max(1, max_iterations - iteration at
\* entry) HYPOTHESIS passes, every run_iteration in flight ends, and it
\* ends with the session awaiting a test result or complete.
C5_Terminates ==
    /\ [](\A c \in Callers : InFlight(c) =>
            calls[c].passes
                <= Max2(1, max_iterations - calls[c].entry.iteration))
    /\ \A c \in {1} : InFlight(c) ~> ~InFlight(c)
    /\ []((last.op = "run_iteration" /\ last.outcome = "returned") =>
            sessions[last.session_id].status \in {"awaiting_test", "complete"})

\* A run_iteration has made as many passes as the bound allows, and more
\* than one.
C5_Witness ==
    \E c \in Callers :
        /\ calls[c].pc = "END"
        /\ calls[c].passes > 1
        /\ calls[c].passes = max_iterations - calls[c].entry.iteration

\* C6: the iteration counter of a session equals the number of HYPOTHESIS
\* passes made on it; a step changes it only by adding 1, and only a
\* HYPOTHESIS step does.
C6_IterationCountsPasses ==
    /\ [](\A s \in DOMAIN sessions : DS(s).iteration = sessions[s].passes)
    /\ [][\A s \in DOMAIN sessions :
            DSp(s).iteration # DS(s).iteration =>
                /\ DSp(s).iteration = DS(s).iteration + 1
                /\ \E c \in Callers : /\ calls[c].pc = "hypothesis_llm"
                                      /\ calls[c].session_id = s
         ]_vars

\* Two passes in one run_iteration (a veto in between), after a result was
\* submitted.
C6_Witness ==
    \E c \in Callers :
        /\ calls[c].passes = 2
        /\ DS(calls[c].session_id).iteration = 3
        /\ DS(calls[c].session_id).completed_tests # << >>

\* C7: when the test selector has no candidate, TEST_CHOOSER keeps no
\* request, STEWARDSHIP goes to FINALIZE, FINALIZE goes to END and the
\* run_iteration ends with the session complete and no request returned;
\* none of these steps changes the diagnostic state.
C7_NoCandidateFinalizes ==
    [][\A c \in Callers :
        LET s == calls[c].session_id
        IN
        /\ ( /\ calls[c].pc = "test_chooser"
             /\ select_next_test(TestCatalog, DS(s), << >>) = << >> ) =>
                /\ calls'[c].pc = "stewardship"
                /\ calls'[c].g.current_test_request = << >>
                /\ calls'[c].g.diagnosis_complete
                /\ DSp(s) = DS(s)
        /\ ( /\ calls[c].pc = "stewardship"
             /\ calls[c].g.current_test_request = << >> ) =>
                /\ calls'[c].pc = "finalize"
                /\ calls'[c].g.current_test_request = << >>
                /\ DSp(s) = DS(s)
        /\ calls[c].pc = "finalize" =>
                /\ calls'[c].pc = "END"
                /\ calls'[c].g.diagnosis_complete
                /\ ~calls'[c].g.awaiting_test_result
                /\ calls'[c].g.current_test_request = << >>
                /\ DSp(s) = DS(s)
        /\ (calls[c].pc = "END" /\ calls[c].g.diagnosis_complete) =>
                /\ sessions'[s].status = "complete"
                /\ sessions'[s].state.diagnosis_complete
                /\ last' = Returned("run_iteration", s, << >>)
                /\ DSp(s) = DS(s)
      ]_vars

\* The selector found no candidate although there are hypotheses and
\* budget is left.
C7_Witness ==
    \E c \in Callers :
        /\ calls[c].pc = "stewardship"
        /\ calls[c].g.current_test_request = << >>
        /\ DS(calls[c].session_id).hypotheses # << >>
        /\ DS(calls[c].session_id).budget_remaining > 0

\* C8: no step changes the diagnostic state or the status of a session
\* that is complete.
C8_CompleteIsImmutable ==
    [][\A s \in DOMAIN sessions :
        sessions[s].status = "complete" =>
            /\ DSp(s) = DS(s)
            /\ sessions'[s].status = "complete"
      ]_vars

\* C9: get_result changes nothing, and returns nothing for an unknown
\* session id and for a session that is not complete.
C9_GetResult ==
    [][last'.op = "get_result" =>
        /\ UNCHANGED << sessions, calls >>
        /\ ( \/ ~Known(last'.session_id)
             \/ sessions[last'.session_id].status # "complete" ) =>
                last'.value = << >>
      ]_vars

\* get_result returned nothing for a session that awaits a test and has a
\* differential.
C9_Witness ==
    /\ last.op = "get_result"
    /\ last.value = << >>
    /\ Known(last.session_id)
    /\ sessions[last.session_id].status = "awaiting_test"
    /\ DS(last.session_id).hypotheses # << >>

\* C10: run_iteration and submit_test_result with an unknown session id
\* raise ValueError, and a call that raises it changes no session and no
\* call in flight.
C10_UnknownSession ==
    [][/\ ( /\ last'.op \in {"run_iteration", "submit_test_result"}
            /\ ~Known(last'.session_id) ) =>
                last'.outcome = "ValueError"
       /\ last'.outcome = "ValueError" =>
                /\ UNCHANGED << sessions, calls >>
                /\ ~Known(last'.session_id)
      ]_vars

\* submit_test_result was rejected while another session was under way.
C10_Witness ==
    /\ last.op = "submit_test_result"
    /\ last.outcome = "ValueError"
    /\ \E s \in DOMAIN sessions : DS(s).iteration > 0

\* C11: while a run_iteration on a session is suspended waiting for the
\* text-generation collaborator, no step of another call (a second
\* run_iteration or a submit_test_result) changes the diagnostic state or
\* the status of that session.
C11_OneStepInFlight ==
    [][\A c \in Callers :
        (calls[c].pc = "hypothesis_llm" /\ calls'[c] = calls[c]) =>
            LET s == calls[c].session_id
            IN  /\ DSp(s) = DS(s)
                /\ sessions'[s].status = sessions[s].status
      ]_vars

\* C12: a step changes a session only if it is a step of a run_iteration
\* on that session or a submit_test_result on that session; every other
\* session keeps its diagnostic state and its status, and no session
\* disappears.
C12_SessionsIndependent ==
    [][\A s \in DOMAIN sessions :
        /\ s \in DOMAIN sessions'
        /\ sessions'[s] # sessions[s] =>
              \/ \E c \in Callers : /\ calls'[c] # calls[c]
                                    /\ calls[c].session_id = s
              \/ /\ calls' = calls
                 /\ last'.op = "submit_test_result"
                 /\ last'.session_id = s
      ]_vars

\* Both sessions have a run_iteration in flight, after a result was
\* submitted on one of them and a HYPOTHESIS pass was made on the other.
C12_Witness ==
    /\ InFlight(1) /\ InFlight(2)
    /\ calls[1].session_id # calls[2].session_id
    /\ \E s, t \in DOMAIN sessions :
          /\ s # t
          /\ DS(s).completed_tests # << >>
          /\ DS(t).iteration > 0
          /\ DS(s).hypotheses # DS(t).hypotheses

\* The hypothesis lists a HYPOTHESIS step can have computed from an answer
\* of the collaborator that raised nothing.
ParsedSets ==
    {_parse_response(o).hypotheses :
        o \in {x \in LLMOutcomes : x.kind # "error" /\ ~_parse_response(x).raised}}

\* The hypothesis lists decoded from an answer that is a JSON list.
DecodedSets ==
    {_parse_response(o).hypotheses :
        o \in {x \in LLMOutcomes : x.kind = "json" /\ ~_parse_response(x).raised}}

FallbackSet == _fallback_ddx(Candidates, EpiPriors, GeneticRisks)

\* confidence is the greatest probability of the hypotheses, 0 when there
\* is none.
ConfidenceConsistent(ds) ==
    IF ds.hypotheses = << >> THEN ds.confidence = 0
    ELSE /\ \A i \in 1..Len(ds.hypotheses) :
               ds.hypotheses[i].probability <= ds.confidence
         /\ \E i \in 1..Len(ds.hypotheses) :
               ds.hypotheses[i].probability = ds.confidence

\* C13: after every HYPOTHESIS step the hypothesis list is, as a whole, the
\* list computed from the collaborator's answer, the previous list or the
\* fallback list, and confidence is consistent with it: the greatest
\* probability of the list, 0 for the empty list.
C13_AtomicHypothesisUpdate ==
    [][\A c \in Callers :
        calls[c].pc = "hypothesis_llm" =>
            LET s == calls[c].session_id
            IN  /\ DSp(s).hypotheses
                      \in ParsedSets \cup {DS(s).hypotheses, FallbackSet}
                /\ ConfidenceConsistent(DSp(s))
      ]_vars

\* C14: a HYPOTHESIS step at iteration > 0 leaves the previous hypothesis
\* list unless the collaborator's answer was decoded; in particular it
\* never replaces a non-empty list by the empty one.
C14_UpdateKeepsPrevious ==
    [][\A c \in Callers :
        (calls[c].pc = "hypothesis_llm" /\ ~calls[c].initial) =>
            LET s == calls[c].session_id
            IN  /\ DSp(s).hypotheses \in DecodedSets \cup {DS(s).hypotheses}
                /\ DS(s).hypotheses # << >> => DSp(s).hypotheses # << >>
      ]_vars

\* C15: a HYPOTHESIS step at iteration 0 leaves the list decoded from the
\* collaborator's answer or, on a collaborator error and on an answer that
\* is not JSON, the rule-based fallback ranking; never the empty list.
C15_InitialFallsBack ==
    [][\A c \in Callers :
        (calls[c].pc = "hypothesis_llm" /\ calls[c].initial) =>
            LET s == calls[c].session_id
            IN  /\ DSp(s).hypotheses \in DecodedSets \cup {FallbackSet}
                /\ DSp(s).hypotheses # << >>
      ]_vars

\* C16: in every state with a non-empty hypothesis list, and so after
\* every HYPOTHESIS step that leaves one, confidence is exactly the
\* greatest probability among the hypotheses.
C16_ConfidenceIsTop ==
    /\ [](\A s \in DOMAIN sessions :
            DS(s).hypotheses # << >> => ConfidenceConsistent(DS(s)))
    /\ [][\A c \in Callers :
            ( /\ calls[c].pc = "hypothesis_llm"
              /\ DSp(calls[c].session_id).hypotheses # << >> ) =>
                ConfidenceConsistent(DSp(calls[c].session_id))
         ]_vars

\* An update step has lowered confidence to the top of a list the
\* collaborator gave in another order (D2 0.3 before D1 0.6).
C16_Witness ==
    \E s \in DOMAIN sessions :
        /\ DS(s).iteration >= 2
        /\ Len(DS(s).hypotheses) = 2
        /\ DS(s).hypotheses[1] = [disease_id |-> "D1", probability |-> 600]
        /\ DS(s).hypotheses[2].probability = 300
        /\ DS(s).confidence = 600
        /\ DS(s).completed_tests # << >>

\* C17: a HYPOTHESIS step that leaves the hypothesis list empty leaves
\* confidence at 0.
C17_EmptyMeansZero ==
    [][\A c \in Callers :
        ( /\ calls[c].pc = "hypothesis_llm"
          /\ DSp(calls[c].session_id).hypotheses = << >> ) =>
            DSp(calls[c].session_id).confidence = 0
      ]_vars

\* evaluate_test has returned.
Evaluated == last.op = "evaluate_test"

\* C18: evaluate_test vetoes every request whose test costs more than
\* budget_remaining, with the rationale of the budget rule, whatever the
\* information gain, the confidence and the completed tests are.
C18_BudgetRule ==
    ( /\ Evaluated
      /\ last.test_request.test.cost_usd > last.state.budget_remaining ) =>
          last.value = << FALSE, "budget" >>

\* A test over budget was vetoed on the budget rule although its gain is
\* below the minimum too.
C18_Witness ==
    /\ Evaluated
    /\ last.test_request.test.cost_usd > last.state.budget_remaining
    /\ last.state.budget_remaining > 0
    /\ last.test_request.expected_information_gain < MIN_INFO_GAIN
    /\ last.value = << FALSE, "budget" >>

\* C19: evaluate_test vetoes every request whose expected information gain
\* is below MIN_INFO_GAIN, for every cost (0 included), confidence and
\* budget; on the minimum-gain rule when the test is within budget.
C19_MinGainRule ==
    ( /\ Evaluated
      /\ last.test_request.expected_information_gain < MIN_INFO_GAIN ) =>
          /\ ~last.value[1]
          /\ last.test_request.test.cost_usd <= last.state.budget_remaining
                => last.value[2] = "min_info_gain"

\* A free test with a gain of 0.04 bits was vetoed on the minimum-gain rule.
C19_Witness ==
    /\ Evaluated
    /\ last.test_request.expected_information_gain = 40
    /\ last.test_request.test.cost_usd = 0
    /\ last.state.confidence = 0
    /\ last.value = << FALSE, "min_info_gain" >>

\* C20: evaluate_test vetoes every request whose test id is in
\* completed_tests, for every cost, gain, confidence and budget; a request
\* whose test id is not in completed_tests is never vetoed on the
\* redundancy rule, even when a completed test detects the same diseases.
C20_RedundancyRule ==
    Evaluated =>
        LET test_id == last.test_request.test.test_id
        IN  /\ test_id \in Range(last.state.completed_tests) => ~last.value[1]
            /\ test_id \notin Range(last.state.completed_tests)
                  => last.value[2] # "redundant"

\* A test that passes every other rule was vetoed because its id is in
\* completed_tests.
C20_Witness ==
    /\ Evaluated
    /\ last.test_request.test.test_id \in Range(last.state.completed_tests)
    /\ last.value = << FALSE, "redundant" >>

\* cost_per_bit > limit for the request of the last evaluate_test call,
\* cost_per_bit = cost / max(gain, 0.001).
GateCostPerBitOver(limit) ==
    LET cost == last.test_request.test.cost_usd
        gain == last.test_request.expected_information_gain
    IN  IF gain > 1 THEN cost * 1000 > limit * gain ELSE cost * 1000 > limit

\* The rule table of the stewardship gate on the arguments of the last
\* evaluate_test call: for each rule, whether it matches.
GateRuleMatches ==
    LET cost == last.test_request.test.cost_usd
        gain == last.test_request.expected_information_gain
        ds   == last.state
    IN  << cost > ds.budget_remaining,
           gain < 50,
           GateCostPerBitOver(500) /\ ds.confidence < 750,
           ds.confidence >= 750 /\ (gain < 200 \/ GateCostPerBitOver(200)),
           \E i \in 1..Len(ds.completed_tests) :
               ds.completed_tests[i] = last.test_request.test.test_id >>

GateRuleNames ==
    << "budget", "min_info_gain", "cost_per_bit", "high_confidence",
       "redundant" >>

\* C21: evaluate_test vetoes exactly when a rule of the table matches, with
\* the rationale of the first rule that matches in the order budget,
\* minimum gain, cost per bit, high confidence, redundancy; it approves
\* when none matches.
C21_RuleTable ==
    Evaluated =>
        IF \E k \in 1..5 : GateRuleMatches[k]
        THEN \E k \in 1..5 :
                /\ GateRuleMatches[k]
                /\ \A j \in 1..(k - 1) : ~GateRuleMatches[j]
                /\ last.value = << FALSE, GateRuleNames[k] >>
        ELSE last.value = << TRUE, "approved" >>

\* At high confidence a test with enough gain was vetoed on its cost per
\* bit alone (100 dollars for 0.2 bits), although rule 3 would have matched
\* at low confidence.
C21_Witness ==
    /\ Evaluated
    /\ last.state.confidence >= 750
    /\ last.test_request.expected_information_gain = 200
    /\ last.test_request.test.cost_usd = 100
    /\ last.value = << FALSE, "high_confidence" >>

C23_VetoChangesNothing ==
    [][\A c \in Callers :
        LET s   == calls[c].session_id
            req == calls[c].g.current_test_request
        IN  ( /\ calls[c].pc = "stewardship"
              /\ calls'[c].pc # "stewardship"
              /\ req # << >>
              /\ ~evaluate_test(req[1], DS(s))[1] ) =>
                /\ DSp(s).budget_remaining = DS(s).budget_remaining
                /\ DSp(s).total_cost = DS(s).total_cost
                /\ DSp(s).pending_tests = DS(s).pending_tests
                /\ DSp(s).completed_tests = DS(s).completed_tests
                /\ DSp(s).test_results = DS(s).test_results
                /\ calls'[c].g.current_test_request = << >>
                /\ ~calls'[c].g.test_approved
                /\ ~calls'[c].g.awaiting_test_result
                /\ calls'[c].g.veto_reason # << >>
                /\ calls'[c].pc = "hypothesis"
      ]_vars

\* After an approved and completed test, a later proposal was vetoed: the
\* workflow is back at HYPOTHESIS with the money and the lists of the
\* session as the earlier approval left them.
C23_Witness ==
    \E c \in Callers :
        /\ calls[c].pc = "hypothesis"
        /\ calls[c].passes > 0
        /\ calls[c].g.veto_reason # << >>
        /\ calls[c].g.current_test_request = << >>
        /\ DS(calls[c].session_id).total_cost > 0
        /\ DS(calls[c].session_id).completed_tests # << >>

Suggested == last.op = "suggest_alternative"

\* The tests the specification lets suggest_alternative choose from: in the
\* catalog, not the vetoed test, not completed, within budget_remaining and
\* sharing at least one detectable disease with the vetoed test.
AltEligible ==
    { test \in Range(AltCatalog) :
        /\ test.test_id # last.vetoed_test.test_id
        /\ test.test_id \notin Range(last.state.completed_tests)
        /\ test.cost_usd <= last.state.budget_remaining
        /\ test.diseases_detected
              \cap last.vetoed_test.diseases_detected # {} }

\* C24: suggest_alternative returns a cheapest test among the eligible ones
\* (catalog tests other than the vetoed one, not completed, affordable and
\* sharing a detectable disease with it), and nothing exactly when there is
\* no eligible test.
C24_CheapestAlternative ==
    Suggested =>
        IF AltEligible = {} THEN last.value = << >>
        ELSE /\ last.value # << >>
             /\ last.value[1] \in AltEligible
             /\ \A test \in AltEligible :
                    last.value[1].cost_usd <= test.cost_usd

Selected == last.op = "select_next_test"

\* The budget ceiling of the last select_next_test call as the
\* specification defines it: max_cost whenever it was supplied,
\* budget_remaining otherwise.
Ceiling ==
    IF last.max_cost # << >> THEN last.max_cost[1]
    ELSE last.state.budget_remaining

\* C25: a test returned by select_next_test is not in completed_tests and
\* costs at most the budget ceiling, which is max_cost whenever max_cost is
\* supplied, 0 included, and budget_remaining otherwise.
C25_WithinCeiling ==
    (Selected /\ last.value # << >>) =>
        /\ last.value[1].test.test_id \notin Range(last.state.completed_tests)
        /\ last.value[1].test.cost_usd <= Ceiling

\* The positions in the catalog of the tests that pass the filter of the
\* last select_next_test call: uncompleted and within the cost limit the
\* call used.
ChooserCandidates ==
    LET cost_limit == IF last.max_cost \in {<< >>, << 0 >>}
                      THEN last.state.budget_remaining
                      ELSE last.max_cost[1]
    IN  { i \in 1..Len(ChooserCatalog) :
            /\ ChooserCatalog[i].test_id
                  \notin Range(last.state.completed_tests)
            /\ ChooserCatalog[i].cost_usd <= cost_limit }

\* gain(a) / max(cost(a), 1) compared with gain(b) / max(cost(b), 1).
GainOf(test) == compute_expected_entropy_reduction(test, last.state.hypotheses)

ValueLeq(a, b) ==
    GainOf(a) * Max2(b.cost_usd, 1) <= GainOf(b) * Max2(a.cost_usd, 1)

\* C26: the test select_next_test returns is a candidate of maximal value
\* gain / max(cost, 1.0), no candidate earlier in the catalog has the same
\* value, and the request's expected_information_gain is that test's gain.
C26_MaxValueFirst ==
    (Selected /\ last.value # << >>) =>
        \E i \in ChooserCandidates :
            /\ last.value[1].test = ChooserCatalog[i]
            /\ \A j \in ChooserCandidates :
                   ValueLeq(ChooserCatalog[j], ChooserCatalog[i])
            /\ \A j \in ChooserCandidates :
                   j < i => ~ValueLeq(ChooserCatalog[i], ChooserCatalog[j])
            /\ last.value[1].expected_information_gain
                  = GainOf(ChooserCatalog[i])

\* T3 and its twin T1 tie on a positive value, T2 has the larger gain and
\* the smaller value, and T3, the first of the catalog, was returned.
C26_Witness ==
    /\ Selected
    /\ ChooserCandidates = {1, 2, 3}
    /\ last.value # << >>
    /\ last.value[1].test.test_id = "T3"
    /\ last.value[1].expected_information_gain > 0
    /\ GainOf(ChooserCatalog[2]) = GainOf(ChooserCatalog[1])
    /\ GainOf(ChooserCatalog[3]) > GainOf(ChooserCatalog[1])

\* C27: select_next_test returns nothing exactly when state.hypotheses is
\* empty or no catalog test is both uncompleted and within the budget
\* ceiling, and a TestRequest in every other case.
C27_NothingIffNoCandidate ==
    Selected =>
        ( last.value = << >>
            <=> \/ last.state.hypotheses = << >>
                \/ ~\E test \in Range(ChooserCatalog) :
                       /\ test.test_id \notin Range(last.state.completed_tests)
                       /\ test.cost_usd <= Ceiling )

Reduced == last.op = "compute_expected_entropy_reduction"

\* C30: compute_expected_entropy_reduction returns 0 for every test when the
\* entropy of the hypotheses is 0, in particular when the list is empty or
\* every probability is 0 or 1.
C30_ZeroEntropyZeroGain ==
    Reduced =>
        /\ compute_entropy[last.hypotheses] = 0 => last.value = 0
        /\ (\A i \in 1..Len(last.hypotheses) :
                last.hypotheses[i].probability \in {0, 1000})
              => last.value = 0

\* Two hypotheses of probability 1 each: the entropy is 0 although the
\* posteriors of a test would not be, and the reduction returned is 0.
C30_Witness ==
    /\ Reduced
    /\ Len(last.hypotheses) = 2
    /\ \A i \in 1..2 : last.hypotheses[i].probability = 1000
    /\ compute_entropy[Normalized(last.hypotheses, last.test, TRUE)] > 0
    /\ last.value = 0

\* What a submit_test_result(s, t, r) step does to session s apart from
\* pending_tests: test_results[t] = r with the other results kept, t
\* appended to completed_tests, hypotheses, confidence, iteration,
\* budget_remaining and total_cost kept, the awaiting flag cleared and the
\* status 'running'.
SubmitEffects(s, t, r) ==
    /\ DOMAIN DSp(s).test_results = DOMAIN DS(s).test_results \cup {t}
    /\ DSp(s).test_results[t] = r
    /\ \A x \in DOMAIN DS(s).test_results \ {t} :
           DSp(s).test_results[x] = DS(s).test_results[x]
    /\ DSp(s).completed_tests = Append(DS(s).completed_tests, t)
    /\ DSp(s).hypotheses = DS(s).hypotheses
    /\ DSp(s).confidence = DS(s).confidence
    /\ DSp(s).iteration = DS(s).iteration
    /\ DSp(s).budget_remaining = DS(s).budget_remaining
    /\ DSp(s).total_cost = DS(s).total_cost
    /\ ~sessions'[s].state.awaiting_test_result
    /\ sessions'[s].status = "running"

\* C28: a submit_test_result(s, t, r) on a known session records r under t,
\* leaves t out of pending_tests, appends t to completed_tests, keeps
\* hypotheses, confidence, iteration, budget_remaining and total_cost,
\* clears the awaiting flag with status 'running'; and a run_iteration
\* always enters the workflow at HYPOTHESIS.
C28_SubmitEffects ==
    [][/\ \A s \in DOMAIN sessions :
            ( /\ s \in DOMAIN sessions'
              /\ Len(DSp(s).completed_tests)
                    = Len(DS(s).completed_tests) + 1 ) =>
                \E t \in TestIds, r \in Results :
                    /\ SubmitEffects(s, t, r)
                    /\ t \notin Range(DSp(s).pending_tests)
                    /\ \A x \in TestIds \ {t} :
                           x \in Range(DSp(s).pending_tests)
                               <=> x \in Range(DS(s).pending_tests)
       /\ \A c \in Callers :
            (calls[c].pc = "idle" /\ calls'[c].pc # "idle") =>
                calls'[c].pc = "hypothesis"
      ]_vars

\* C29: no step of any operation increases the budget_remaining of a
\* session or decreases its total_cost.
C29_BudgetMonotone ==
    [][\A s \in DOMAIN sessions :
           s \in DOMAIN sessions' =>
               /\ DSp(s).budget_remaining <= DS(s).budget_remaining
               /\ DSp(s).total_cost >= DS(s).total_cost
      ]_vars

\* A session that paid for a test, had its result submitted, and was
\* finalized, with the money where the approval left it.
C29_Witness ==
    \E s \in DOMAIN sessions :
        /\ sessions[s].status = "complete"
        /\ DS(s).completed_tests # << >>
        /\ DS(s).total_cost > 0
        /\ DS(s).budget_remaining < default_budget_usd

EntropyComputed == last.op = "compute_entropy"

\* The probabilities of the hypotheses of the last compute_entropy call.
EntropyProbabilities ==
    [i \in 1..Len(last.hypotheses) |-> last.hypotheses[i].probability]

\* C31: compute_entropy is 0 for the empty list, 0 for a single hypothesis
\* of probability 1, exactly 1 bit for two hypotheses of probability 0.5,
\* and hypotheses of probability 0 add nothing to it.
C31_EntropyValues ==
    EntropyComputed =>
        /\ last.hypotheses = << >> => last.value = 0
        /\ EntropyProbabilities = << 1000 >> => last.value = 0
        /\ EntropyProbabilities = << 500, 500 >> => last.value = 1000
        /\ EntropyProbabilities = << 500, 0, 500 >> => last.value = 1000
        /\ EntropyProbabilities = << 250, 250, 250, 250 >> => last.value = 2000
        /\ EntropyProbabilities = << 0, 0 >> => last.value = 0
        /\ last.value >= 0

\* The entropy of a fair coin with a third hypothesis of probability 0.
C31_Witness ==
    /\ EntropyComputed
    /\ EntropyProbabilities = << 500, 0, 500 >>
    /\ last.value = 1000

Estimated == last.op = "estimate_posterior"

FellBack == last.op = "_fallback_ddx"

\* C32: in the list _fallback_ddx returns, the hypothesis at 0-based rank i
\* has probability at most 0.9 - 0.1 * i and at least 0.01, and the
\* probabilities do not increase along the list.
C32_FallbackBounds ==
    FellBack =>
        \A k \in 1..Len(last.value) :
            /\ last.value[k].probability <= 900 - 100 * (k - 1)
            /\ last.value[k].probability >= 10
            /\ k > 1 => last.value[k].probability
                            <= last.value[k - 1].probability

\* The session of call c is s and this step is the STEWARDSHIP step of c
\* with an approval.
Approves(c, s) ==
    /\ calls[c].pc = "stewardship"
    /\ calls'[c].pc # "stewardship"
    /\ calls[c].session_id = s
    /\ calls'[c].g.test_approved

\* The cost approved for session s by this step: the cost of the request
\* of the approving call, 0 when the step approves nothing for s.
ApprovedCost(s) ==
    IF \E c \in Callers : Approves(c, s)
    THEN LET c == CHOOSE c \in Callers : Approves(c, s)
         IN  calls[c].g.current_test_request[1].test.cost_usd
    ELSE 0

\* C34: in every reachable state, budget_remaining + total_cost of a
\* session is the budget it started with; total_cost starts at 0 and every
\* step adds to it exactly the cost of the approval the step makes, if any,
\* so it is the summed cost of the approvals made so far.
C34_BudgetConservation ==
    /\ [](\A s \in DOMAIN sessions :
            DS(s).budget_remaining + DS(s).total_cost = default_budget_usd)
    /\ [][\A s \in DOMAIN sessions' :
            IF s \in DOMAIN sessions
            THEN DSp(s).total_cost = DS(s).total_cost + ApprovedCost(s)
            ELSE DSp(s).total_cost = 0
         ]_vars

\* Two approvals, the first test completed and the second pending: the
\* whole budget is in total_cost.
C34_Witness ==
    \E s \in DOMAIN sessions :
        /\ DS(s).completed_tests = << "T1" >>
        /\ DS(s).pending_tests = << "T2" >>
        /\ DS(s).total_cost = 500
        /\ DS(s).budget_remaining = default_budget_usd - 500

\* No value occurs twice in the list.
NoDuplicates(list) ==
    \A i, j \in 1..Len(list) : list[i] = list[j] => i = j

\* C35: a test whose id is in pending_tests is never approved again, so
\* the pending_tests of a session never hold the same id twice.
C35_ApprovedOnce ==
    \A s \in DOMAIN sessions : NoDuplicates(DS(s).pending_tests)

\* C36: a step that appends a test id to completed_tests or records a
\* result for it finds the id in pending_tests, where only an approval puts
\* it, and completed_tests never holds the same id twice.
C36_CompletedWerePending ==
    /\ [](\A s \in DOMAIN sessions : NoDuplicates(DS(s).completed_tests))
    /\ [][\A s \in DOMAIN sessions :
            s \in DOMAIN sessions' =>
                /\ DSp(s).completed_tests # DS(s).completed_tests =>
                      DSp(s).completed_tests[Len(DSp(s).completed_tests)]
                          \in Range(DS(s).pending_tests)
                /\ \A t \in DOMAIN DSp(s).test_results :
                      ( \/ t \notin DOMAIN DS(s).test_results
                        \/ DSp(s).test_results[t] # DS(s).test_results[t] )
                          => t \in Range(DS(s).pending_tests)
         ]_vars

\* The catalog cost of the test with this id.
CatalogCost(test_id) ==
    LET i == CHOOSE i \in 1..Len(TestCatalog) :
                 TestCatalog[i].test_id = test_id
    IN  TestCatalog[i].cost_usd

\* C37: a DiagnosisResult returned by get_result names the disease of a
\* hypothesis of maximal probability in its differential, has that
\* probability as confidence, and a total_cost that is the summed catalog
\* cost of its tests_ordered.
C37_ResultConsistent ==
    (last.op = "get_result" /\ last.outcome = "returned"
        /\ last.value # << >>) =>
        LET result == last.value[1]
        IN  /\ \E i \in 1..Len(result.differential) :
                  /\ result.differential[i].disease_id = result.final_diagnosis
                  /\ result.differential[i].probability = result.confidence
                  /\ \A j \in 1..Len(result.differential) :
                         result.differential[j].probability
                             <= result.differential[i].probability
            /\ result.total_cost =
                  SumSeq([i \in 1..Len(result.tests_ordered) |->
                             CatalogCost(result.tests_ordered[i])])

\* C38: a run_iteration ends with exactly one of diagnosis_complete and
\* awaiting_test_result true: the workflow reaches END from FINALIZE with
\* the first and from an approving STEWARDSHIP with the second; the session
\* gets the result's flags, status 'complete' exactly in the first case and
\* 'awaiting_test' exactly in the second, and a test request is returned
\* only in the second.
C38_CompleteXorAwaiting ==
    [][\A c \in Callers :
        /\ (calls[c].pc # "END" /\ calls'[c].pc = "END") =>
              /\ calls[c].pc \in {"finalize", "stewardship"}
              /\ calls[c].pc = "finalize" =>
                    /\ calls'[c].g.diagnosis_complete
                    /\ ~calls'[c].g.awaiting_test_result
              /\ calls[c].pc = "stewardship" =>
                    /\ calls'[c].g.awaiting_test_result
                    /\ calls'[c].g.test_approved
                    /\ ~calls'[c].g.diagnosis_complete
        /\ (calls[c].pc = "END" /\ calls'[c].pc # "END") =>
              LET s == calls[c].session_id
                  result == calls[c].g
              IN  /\ result.diagnosis_complete # result.awaiting_test_result
                  /\ sessions'[s].state.diagnosis_complete
                        = result.diagnosis_complete
                  /\ sessions'[s].state.awaiting_test_result
                        = result.awaiting_test_result
                  /\ sessions'[s].status = "complete"
                        <=> result.diagnosis_complete
                  /\ sessions'[s].status = "awaiting_test"
                        <=> result.awaiting_test_result
                  /\ last' = Returned("run_iteration", s,
                                      result.current_test_request)
                  /\ result.current_test_request # << >>
                        => result.awaiting_test_result
      ]_vars

\* A run_iteration that found a session awaiting a paid test has ended in
\* FINALIZE: the session is complete, not awaiting, and no request was
\* returned.
C38_Witness ==
    /\ last.op = "run_iteration" /\ last.outcome = "returned"
    /\ last.value = << >>
    /\ Known(last.session_id)
    /\ sessions[last.session_id].status = "complete"
    /\ sessions[last.session_id].state.diagnosis_complete
    /\ ~sessions[last.session_id].state.awaiting_test_result
    /\ DS(last.session_id).pending_tests # << >>

\* C39: the iteration counter of a session never exceeds max_iterations,
\* whatever calls are made on it.
C39_IterationBounded ==
    \A s \in DOMAIN sessions : DS(s).iteration <= max_iterations

\* A terminal condition of the diagnostic loop holds in this state: enough
\* confidence, the iteration limit, no budget left, or no test for the Test
\* Selector to propose.
TerminalCondition(ds) ==
    \/ ds.confidence >= confidence_threshold
    \/ ds.iteration >= max_iterations
    \/ ds.budget_remaining <= 0
    \/ select_next_test(TestCatalog, ds, << >>) = << >>

\* C40: the workflow enters FINALIZE only from HYPOTHESIS on one of its
\* three guards or from STEWARDSHIP when no test was proposed, never on a
\* veto, and a run_iteration sets the status 'complete' only in a state
\* where a terminal condition holds.
C40_CompleteOnlyWhenTerminal ==
    [][\A c \in Callers :
        LET s == calls[c].session_id
        IN  /\ (calls[c].pc # "finalize" /\ calls'[c].pc = "finalize") =>
                  \/ /\ calls[c].pc = "hypothesis_llm"
                     /\ \/ DSp(s).confidence >= confidence_threshold
                        \/ DSp(s).iteration >= max_iterations
                        \/ DSp(s).budget_remaining <= 0
                  \/ /\ calls[c].pc = "stewardship"
                     /\ calls[c].g.current_test_request = << >>
                     /\ calls'[c].g.veto_reason = << >>
                     /\ select_next_test(TestCatalog, DS(s), << >>) = << >>
            /\ ( /\ calls[c].pc = "END" /\ calls'[c].pc # "END"
                 /\ sessions'[s].status = "complete" ) =>
                  /\ calls[c].g.diagnosis_complete
                  /\ TerminalCondition(DSp(s))
      ]_vars

\* A session completed although its confidence is below the threshold, its
\* iteration below the limit and money is left: the Test Selector had
\* nothing to propose.
C40_Witness ==
    /\ last.op = "run_iteration" /\ last.outcome = "returned"
    /\ Known(last.session_id)
    /\ sessions[last.session_id].status = "complete"
    /\ DS(last.session_id).confidence < confidence_threshold
    /\ DS(last.session_id).iteration < max_iterations
    /\ DS(last.session_id).budget_remaining > 0
    /\ select_next_test(TestCatalog, DS(last.session_id), << >>) = << >>

=============================================================================
